---- MODULE Spec2Model ----
(***************************************************************************)
(* A model of parsepico (src/main.go, lines 1-989): the conversion of a    *)
(* PICO-8 cartridge text into the sprite atlas, the rendered map, the      *)
(* sprite sheet JSON and the map JSON.                                     *)
(*                                                                         *)
(* Representation.  A text line is a sequence of ASCII codes, so that      *)
(* parseHexChar compares code points as the source does.  An image.RGBA is *)
(* a record [w, h, pix] with pix[y][x] a colour <<r, g, b, a>>; reading    *)
(* outside the rectangle gives the zero colour and writing outside it is   *)
(* ignored, as in Go's image package.  The map raster is kept per 8x8      *)
(* tile: every write to it (drawSprite, drawBlackTile, the background      *)
(* fill) covers whole aligned tiles, so a tile is described by the write   *)
(* that last covered it, and MapAt gives the colour of any pixel.          *)
(*                                                                         *)
(* files maps a path to what was written there.  The PNG and JSON codecs   *)
(* are taken as lossless: a PNG file is the raster it encodes and a JSON   *)
(* file is the document it encodes (integers, booleans and strings only).  *)
(* Writes to the file system succeed in Spec and may fail in SpecIO;       *)
(* SpecScan runs the section scanner on small files of marker lines.       *)
(***************************************************************************)
EXTENDS Integers, Sequences, FiniteSets, TLC

VARIABLES
    pc,                   \* position in main
    cart,                 \* the lines of the cartridge file
    useSection3,          \* --3
    useSection4,          \* --4
    gfxData,              \* main: lines of __gfx__
    mapData,              \* main: lines of __map__
    flagData,             \* main: 256 flag bytes
    dualPurposeSection1,  \* main: gfxData[64:96] or nil
    dualPurposeSection2,  \* main: gfxData[96:128] or nil
    spriteSheet,          \* main: the 128x128 atlas raster
    mapHeight,            \* main: map height in tiles
    mapImage,             \* main: the rendered map (per tile)
    numSections,          \* main: number of sections handed to the combiner
    jsonData,             \* main: the SpriteSheet document
    mapSheet,             \* main: the MapSheet document
    files                 \* the output files, by path

vars == <<pc, cart, useSection3, useSection4, gfxData, mapData, flagData,
          dualPurposeSection1, dualPurposeSection2, spriteSheet, mapHeight,
          mapImage, numSections, jsonData, mapSheet, files>>

-----------------------------------------------------------------------------
(* Bounds of the enumerated inputs *)

MaxSeed == 3
Over == 2
ShortGfxRows == 70
ShortGfxLen == 21
ShortMapRows == 3
ShortMapLen == 7
MaxRune == 127
LateFailure == 3
MaxLines == 4

-----------------------------------------------------------------------------
(* Program constants *)

size == 128
tileSize == 8
spritesPerRow == 16
mapWidth == 128
baseMapRows == 32
section3StartRow == 64
section4StartRow == 96
sectionRows == 32
section3MapRow == 32
section4MapRow == 48
numSpriteIDs == 256
flagsPerLine == 128
sectionWidth == 128
sectionHeight == 32

\* a variable main has not assigned yet
Nil == <<"nil">>

\* a nil slice of lines, and a slice holding rows
NilSlice == [isNil |-> TRUE, rows |-> <<>>]
Slice(rows) == [isNil |-> FALSE, rows |-> rows]

Min(a, b) == IF a < b THEN a ELSE b

pico8Palette ==
    << <<0, 0, 0, 255>>,       <<29, 43, 83, 255>>,    <<126, 37, 83, 255>>,
       <<0, 135, 81, 255>>,    <<171, 82, 54, 255>>,   <<95, 87, 79, 255>>,
       <<194, 195, 199, 255>>, <<255, 241, 232, 255>>, <<255, 0, 77, 255>>,
       <<255, 163, 0, 255>>,   <<255, 236, 39, 255>>,  <<0, 228, 54, 255>>,
       <<41, 173, 255, 255>>,  <<131, 118, 156, 255>>, <<255, 119, 168, 255>>,
       <<255, 204, 170, 255>> >>

\* color.RGBA{}: the value of a pixel never written, and of At outside the bounds
ZeroColor == <<0, 0, 0, 0>>

\* pico8Palette[i] with Go's 0-based index
Palette(i) == pico8Palette[i + 1]

-----------------------------------------------------------------------------
(* Strings *)

\* line[i] with Go's 0-based byte index
At0(line, i) == line[i + 1]

\* strings.HasPrefix
HasPrefix(line, prefix) ==
    /\ Len(line) >= Len(prefix)
    /\ \A i \in 1..Len(prefix) : line[i] = prefix[i]

MarkerPrefix == <<95, 95>>                           \* "__"
GfxMarker == <<95, 95, 103, 102, 120, 95, 95>>       \* "__gfx__"
GffMarker == <<95, 95, 103, 102, 102, 95, 95>>       \* "__gff__"
MapMarker == <<95, 95, 109, 97, 112, 95, 95>>        \* "__map__"
LuaMarker == <<95, 95, 108, 117, 97, 95, 95>>        \* "__lua__"
SfxMarker == <<95, 95, 115, 102, 120, 95, 95>>       \* "__sfx__"

ParseHexCharLowerOnly(c) ==
    IF c >= 48 /\ c <= 57 THEN c - 48
    ELSE IF c >= 97 /\ c <= 102 THEN (c - 97) + 10
    ELSE -1

\* parseHexChar: '0' = 48, '9' = 57, 'a' = 97, 'f' = 102, 'A' = 65, 'F' = 70
parseHexChar(c) ==
    IF c >= 48 /\ c <= 57 THEN c - 48
    ELSE IF c >= 97 /\ c <= 102 THEN (c - 97) + 10
    ELSE IF c >= 65 /\ c <= 70 THEN (c - 65) + 10
    ELSE -1

-----------------------------------------------------------------------------
(* The enumerated cartridges *)

\* 0-9 a-f A-F, then characters that are no hex digit: g G / : @ ` and space
Alphabet ==
    << 48, 49, 50, 51, 52, 53, 54, 55, 56, 57, 97, 98, 99, 100, 101, 102,
       65, 66, 67, 68, 69, 70, 103, 71, 47, 58, 64, 96, 32 >>

HexLower(v) == Alphabet[(v % 16) + 1]

\* the character at column x of line y of a section, for a seed:
\* 0 all '0'; 1 lowercase hex digits; 2 blank and drawn 8x8 blocks alternate,
\* the drawn ones with some blank rows on top;
\* 3 and above run through the whole alphabet
PatternChar(seed, x, y) ==
    CASE seed = 0 -> 48
      [] seed = 1 -> HexLower(x + 5 * y + 1)
      [] seed = 2 -> IF ((x \div 8) + (y \div 8)) % 2 = 0 THEN 48
                     ELSE IF y % 8 < (x \div 8) % 8 THEN 48
                     ELSE HexLower(3 * x + y)
      [] OTHER -> Alphabet[((x * seed + 7 * y) % Len(Alphabet)) + 1]

PatternLines(seed, rows, len) ==
    [y \in 1..rows |-> [x \in 1..len |-> PatternChar(seed, x - 1, y - 1)]]

\* the shapes of the cartridges: rows and line length of the three sections
\* (gfxRows = -1, mapRows = -1: the section's marker is absent)
Shape(gr, gl, mr, ml, fr, fl) ==
    [gfxRows |-> gr, gfxLen |-> gl, mapRows |-> mr, mapLen |-> ml,
     gffRows |-> fr, gffLen |-> fl]

Shapes ==
    { Shape(size, size, baseMapRows, 2 * mapWidth, 2, 2 * flagsPerLine),
      Shape(size + Over, size + Over, baseMapRows + Over, 2 * mapWidth + Over,
            2 + Over, 2 * flagsPerLine + Over),
      Shape(ShortGfxRows, ShortGfxLen, ShortMapRows, ShortMapLen, 1, ShortMapLen),
      Shape(section4StartRow + Over, size, baseMapRows, ShortMapLen, -1, 0),
      Shape(-1, 0, ShortMapRows, ShortMapLen, 0, 0),
      Shape(0, 0, ShortMapRows, ShortMapLen, 0, 0),
      Shape(ShortGfxRows, ShortGfxLen, -1, 0, 2, ShortMapLen) }

SectionText(marker, seed, rows, len) ==
    IF rows < 0 THEN <<>> ELSE <<marker>> \o PatternLines(seed, rows, len)

\* a cartridge: a header, __lua__, then __gfx__, __gff__, __map__ and __sfx__
CartFile(shape, seed) ==
    <<LuaMarker, <<45, 45>> >>
    \o SectionText(GfxMarker, seed, shape.gfxRows, shape.gfxLen)
    \o SectionText(GffMarker, seed + 1, shape.gffRows, shape.gffLen)
    \o SectionText(MapMarker, seed, shape.mapRows, shape.mapLen)
    \o <<SfxMarker, <<48, 49>> >>

\* a cartridge whose tilemap has more than 32 lines of non-zero pairs and whose
\* graphics are all '0': the rows of the dual-purpose bands meet tiles that the
\* tilemap has drawn
LayeredCart ==
    <<LuaMarker, <<45, 45>> >>
    \o SectionText(GfxMarker, 0, size + Over, size + Over)
    \o SectionText(MapMarker, 1, baseMapRows + Over, 2 * mapWidth + Over)
    \o <<SfxMarker, <<48, 49>> >>

-----------------------------------------------------------------------------
(* parseSection *)

ScanLineKeepsOpen(line, sectionName, inSection) ==
    IF HasPrefix(line, sectionName)
    THEN [inSection |-> TRUE, section |-> <<>>]
    ELSE [inSection |-> inSection, section |-> IF inSection THEN <<line>> ELSE <<>>]

\* one turn of parseSection's loop on a line: the state after it and what it
\* appends.  A line with the section's name as prefix opens the section and is
\* skipped; another line starting with "__" closes it.
ScanLine(line, sectionName, inSection) ==
    IF HasPrefix(line, sectionName)
    THEN [inSection |-> TRUE, section |-> <<>>]
    ELSE LET inNow == IF HasPrefix(line, MarkerPrefix) /\ line # sectionName
                      THEN FALSE ELSE inSection
         IN [inSection |-> inNow, section |-> IF inNow THEN <<line>> ELSE <<>>]

\* the loop over lines lo..hi, started in state inSection (split in halves to
\* keep the evaluation shallow; the state runs through the lines in file order)
RECURSIVE ScanLines(_, _, _, _, _)
ScanLines(lines, sectionName, lo, hi, inSection) ==
    IF lo > hi THEN [inSection |-> inSection, section |-> <<>>]
    ELSE IF lo = hi THEN ScanLine(lines[lo], sectionName, inSection)
    ELSE LET mid == (lo + hi) \div 2
             left == ScanLines(lines, sectionName, lo, mid, inSection)
             right == IF left.inSection
                      THEN ScanLines(lines, sectionName, mid + 1, hi, TRUE)
                      ELSE ScanLines(lines, sectionName, mid + 1, hi, FALSE)
         IN [inSection |-> right.inSection, section |-> left.section \o right.section]

parseSection(lines, sectionName) ==
    ScanLines(lines, sectionName, 1, Len(lines), FALSE).section

-----------------------------------------------------------------------------
(* Images *)

\* img.At(x, y)
ImgAt(img, x, y) ==
    IF x >= 0 /\ x < img.w /\ y >= 0 /\ y < img.h THEN img.pix[y][x] ELSE ZeroColor

\* the pixel reconstructImage leaves at (x, y): set once if line y has a
\* character x, never written otherwise
ReconstructPixel(gfx, x, y) ==
    IF y < Len(gfx) /\ x < Len(gfx[y + 1])
    THEN LET colorIndex == parseHexChar(At0(gfx[y + 1], x)) IN
         IF colorIndex >= 0 /\ colorIndex < Len(pico8Palette)
         THEN Palette(colorIndex)
         ELSE Palette(0)
    ELSE ZeroColor

reconstructImage(gfx) ==
    [w |-> size, h |-> size,
     pix |-> [y \in 0..(size - 1) |-> [x \in 0..(size - 1) |-> ReconstructPixel(gfx, x, y)]]]

-----------------------------------------------------------------------------
(* Flags *)

\* the two characters of a flag pair read low nibble first
FlagValueLowNibbleFirst(section, spriteIndex) ==
    LET lineNum == spriteIndex \div flagsPerLine
        i == 2 * (spriteIndex % flagsPerLine)
    IN IF lineNum < Len(section) /\ lineNum < 2 /\ i < Len(section[lineNum + 1]) - 1
       THEN parseHexChar(At0(section[lineNum + 1], i))
            + parseHexChar(At0(section[lineNum + 1], i + 1)) * 16
       ELSE 0

\* one flag byte of parseFlagSection: sprite lineNum*128 + k is written from
\* characters 2k and 2k+1 of flag line lineNum (the first two lines only)
FlagValue(section, spriteIndex) ==
    LET lineNum == spriteIndex \div flagsPerLine
        i == 2 * (spriteIndex % flagsPerLine)
    IN IF lineNum < Len(section) /\ lineNum < 2 /\ i < Len(section[lineNum + 1]) - 1
       THEN parseHexChar(At0(section[lineNum + 1], i)) * 16
            + parseHexChar(At0(section[lineNum + 1], i + 1))
       ELSE 0

\* parseFlagSection: flagData[spriteIndex], 0-based
parseFlagSection(lines) ==
    LET section == parseSection(lines, GffMarker) IN
    [spriteIndex \in 0..(numSpriteIDs - 1) |->
        IF Len(section) = 0 THEN 0 ELSE FlagValue(section, spriteIndex)]

\* 1 << i
Pow2(i) == CASE i = 0 -> 1 [] i = 1 -> 2 [] i = 2 -> 4 [] i = 3 -> 8
             [] i = 4 -> 16 [] i = 5 -> 32 [] i = 6 -> 64 [] i = 7 -> 128

\* getFlagArray: flags[i] = (flagByte & (1 << i)) != 0, on a two's-complement int
getFlagArray(flagByte) ==
    [i \in 0..7 |-> ((flagByte \div Pow2(i)) % 2) = 1]

-----------------------------------------------------------------------------
(* Dual-purpose sections *)

\* gfxData[startRow:endRow] of main and generateMapJSON, with endRow clamped;
\* nil when startRow is not below len(gfxData)
SectionSlice(gfx, startRow) ==
    LET endRow == Min(startRow + sectionRows, Len(gfx)) IN
    IF startRow < Len(gfx) THEN Slice(SubSeq(gfx, startRow + 1, endRow)) ELSE NilSlice

\* main, lines 202-208: mapHeight is 32, then 48 if --3, then 64 if --4
MainMapHeight(use3, use4) ==
    IF use4 THEN 64 ELSE IF use3 THEN 48 ELSE 32

-----------------------------------------------------------------------------
(* renderMap *)

BackgroundTile == [kind |-> "background", spriteX |-> 0, spriteY |-> 0]
BlackTile == [kind |-> "black", spriteX |-> 0, spriteY |-> 0]
SpriteTile(spriteX, spriteY) == [kind |-> "sprite", spriteX |-> spriteX, spriteY |-> spriteY]

\* the tile at (tx, ty) after the loop over the regular map data, lines 467-479
TileAfterBase(map, prev, tx, ty) ==
    IF ty < Len(map) /\ tx < Len(map[ty + 1]) \div 2
    THEN LET line == map[ty + 1]
             spriteY == parseHexChar(At0(line, tx * 2))
             spriteX == parseHexChar(At0(line, tx * 2 + 1))
         IN IF spriteX # 0 \/ spriteY # 0 THEN SpriteTile(spriteX, spriteY) ELSE prev
    ELSE prev

\* the tile at (tx, ty) after the loop over dual-purpose section 1, lines
\* 481-504: row y draws at (x, 32 + y/2) if even (a black tile for (0,0)) and at
\* (64 + x, 32 + (y-1)/2) if odd; of two writes to a tile, the later row wins
TileAfterSection1(dps, prev, tx, ty) ==
    IF dps.isNil \/ ty < section3MapRow THEN prev
    ELSE LET dp == dps.rows
             yEven == 2 * (ty - section3MapRow)
             yOdd == yEven + 1
             xOdd == tx - 64
             oddHere == /\ xOdd >= 0
                        /\ yOdd < Len(dp)
                        /\ xOdd < Len(dp[yOdd + 1]) \div 2
             oddX == parseHexChar(At0(dp[yOdd + 1], xOdd * 2))
             oddY == parseHexChar(At0(dp[yOdd + 1], xOdd * 2 + 1))
             evenHere == /\ yEven < Len(dp)
                         /\ tx < Len(dp[yEven + 1]) \div 2
             evenX == parseHexChar(At0(dp[yEven + 1], tx * 2))
             evenY == parseHexChar(At0(dp[yEven + 1], tx * 2 + 1))
         IN IF oddHere /\ (oddX # 0 \/ oddY # 0) THEN SpriteTile(oddX, oddY)
            ELSE IF evenHere
                 THEN IF evenX # 0 \/ evenY # 0 THEN SpriteTile(evenX, evenY)
                      ELSE BlackTile
                 ELSE prev

TileAfterSection2BlackOnEven(dps, prev, tx, ty) ==
    TileAfterSection1([isNil |-> dps.isNil,
                       rows |-> [k \in 1..(2 * (section4MapRow - section3MapRow)) |-> <<>>] \o dps.rows],
                      prev, tx, ty)

\* the tile at (tx, ty) after the loop over dual-purpose section 2, lines
\* 506-526: as section 1 from map row 48, and (0,0) draws nothing
TileAfterSection2(dps, prev, tx, ty) ==
    IF dps.isNil \/ ty < section4MapRow THEN prev
    ELSE LET dp == dps.rows
             yEven == 2 * (ty - section4MapRow)
             yOdd == yEven + 1
             xOdd == tx - 64
             oddHere == /\ xOdd >= 0
                        /\ yOdd < Len(dp)
                        /\ xOdd < Len(dp[yOdd + 1]) \div 2
             oddX == parseHexChar(At0(dp[yOdd + 1], xOdd * 2))
             oddY == parseHexChar(At0(dp[yOdd + 1], xOdd * 2 + 1))
             evenHere == /\ yEven < Len(dp)
                         /\ tx < Len(dp[yEven + 1]) \div 2
             evenX == parseHexChar(At0(dp[yEven + 1], tx * 2))
             evenY == parseHexChar(At0(dp[yEven + 1], tx * 2 + 1))
         IN IF oddHere /\ (oddX # 0 \/ oddY # 0) THEN SpriteTile(oddX, oddY)
            ELSE IF evenHere /\ (evenX # 0 \/ evenY # 0) THEN SpriteTile(evenX, evenY)
            ELSE prev

\* renderMap: a raster of mapWidth*8 x mapHeight*8 pixels, filled with
\* Palette[0], then the three loops in order; tiles outside the raster are not
\* kept (Set outside the bounds does nothing)
renderMap(map, dp1, dp2, width, height) ==
    [w |-> width * tileSize, h |-> height * tileSize,
     tiles |-> [ty \in 0..(height - 1) |-> [tx \in 0..(width - 1) |->
        TileAfterSection2(dp2,
            TileAfterSection1(dp1,
                TileAfterBase(map, BackgroundTile, tx, ty), tx, ty), tx, ty)]]]

\* the colour of pixel (px, py) of a rendered map: drawSprite copied
\* src.At(spriteX*8 + xx, spriteY*8 + yy), drawBlackTile and the fill set Palette[0]
MapAt(img, src, px, py) ==
    IF px < 0 \/ px >= img.w \/ py < 0 \/ py >= img.h THEN ZeroColor
    ELSE LET tile == img.tiles[py \div tileSize][px \div tileSize] IN
         IF tile.kind = "sprite"
         THEN ImgAt(src, tile.spriteX * tileSize + (px % tileSize),
                         tile.spriteY * tileSize + (py % tileSize))
         ELSE Palette(0)

-----------------------------------------------------------------------------
(* saveSprites and combineSectionsIntoSpriteSheet *)

DigitChar == <<"0", "1", "2", "3", "4", "5", "6", "7", "8", "9">>

\* the decimal digits of n >= 0, as fmt's %d writes them
RECURSIVE Decimal(_)
Decimal(n) ==
    IF n < 10 THEN DigitChar[n + 1] ELSE Decimal(n \div 10) \o DigitChar[(n % 10) + 1]

RECURSIVE ZeroPad(_, _)
ZeroPad(str, width) == IF Len(str) >= width THEN str ELSE ZeroPad("0" \o str, width)

\* fmt.Sprintf("%03d", n) for n >= 0
Sprintf03d(n) == ZeroPad(Decimal(n), 3)

SpriteFilename(spriteID) == "sprite_" \o Sprintf03d(spriteID) \o ".png"
SpritePath(spriteNum) == "sprites/" \o SpriteFilename(spriteNum)
SectionPath(i) == "sprites/section_" \o Decimal(i) \o ".png"

\* a w x h image copied from src at (x0, y0): the copy loops of saveSprites
SubImage(src, x0, y0, w, h) ==
    [w |-> w, h |-> h,
     pix |-> [yy \in 0..(h - 1) |-> [xx \in 0..(w - 1) |-> ImgAt(src, x0 + xx, y0 + yy)]]]

\* saveSprites, lines 564-578: the ranges of sprite numbers to export
SaveSpriteRanges(use3, use4) ==
    <<[start |-> 0, end |-> 127]>>
    \o (IF ~use3 THEN <<[start |-> 128, end |-> 191]>> ELSE <<>>)
    \o (IF ~use4 THEN <<[start |-> 192, end |-> 255]>> ELSE <<>>)

\* two sections as soon as an option is given
SaveSpritesNumSectionsEitherOption(use3, use4) ==
    IF use3 \/ use4 THEN 2 ELSE 4

\* saveSprites, lines 588-595: the number of sections to save
SaveSpritesNumSections(use3, use4) ==
    IF ~use3 /\ ~use4 THEN 4
    ELSE IF ~use3 THEN 3
    ELSE IF ~use4 THEN 3
    ELSE 2

MainNumSectionsEitherOption(use3, use4) ==
    IF use3 \/ use4 THEN 2 ELSE 4

\* main, lines 220-227: the number of sections to combine
MainNumSections(use3, use4) ==
    IF ~use3 /\ ~use4 THEN 4
    ELSE IF ~use3 THEN 3
    ELSE IF ~use4 THEN 3
    ELSE 2

\* saveSprites, lines 602-626: the sprite numbers written
SavedSpriteNums(use3, use4) ==
    LET ranges == SaveSpriteRanges(use3, use4) IN
    UNION { IF use3 /\ use4 /\ ranges[k].start > 127 THEN {}
            ELSE ranges[k].start .. ranges[k].end : k \in 1..Len(ranges) }

\* saveSprites: the files it writes, sprite files then section files
saveSprites(sheet, use3, use4) ==
    LET nums == SavedSpriteNums(use3, use4)
        sprFiles == [path \in {SpritePath(n) : n \in nums} |->
                        LET spriteNum == CHOOSE n \in nums : SpritePath(n) = path IN
                        SubImage(sheet, (spriteNum % spritesPerRow) * tileSize,
                                 (spriteNum \div spritesPerRow) * tileSize,
                                 tileSize, tileSize)]
        secs == 0..(SaveSpritesNumSections(use3, use4) - 1)
        secFiles == [path \in {SectionPath(i) : i \in secs} |->
                        LET i == CHOOSE j \in secs : SectionPath(j) = path IN
                        SubImage(sheet, 0, i * sectionHeight, sectionWidth, sectionHeight)]
    IN secFiles @@ sprFiles

\* combineSectionsIntoSpriteSheet: an error when a section file cannot be
\* opened; otherwise the files with spritesheet.png, the 128 x 128 sheet with
\* section i copied to rows 32i.. and the slots from numSections to 3 set to
\* color.RGBA{0, 0, 0, 0}
combineSectionsIntoSpriteSheet(fs, n) ==
    IF \E i \in 0..(n - 1) : SectionPath(i) \notin DOMAIN fs
    THEN [err |-> TRUE, files |-> fs]
    ELSE [err |-> FALSE,
          files |-> ("spritesheet.png" :>
            [w |-> sectionWidth, h |-> sectionHeight * 4,
             pix |-> [y \in 0..(sectionHeight * 4 - 1) |-> [x \in 0..(sectionWidth - 1) |->
                IF y \div sectionHeight < n
                THEN ImgAt(fs[SectionPath(y \div sectionHeight)], x, y % sectionHeight)
                ELSE ZeroColor]]]) @@ fs]

-----------------------------------------------------------------------------
(* generateSpriteSheetJSON and createIndividualSpritePNGs *)

AvailableSpritesSwapped(use3, use4) ==
    [Total |-> 128 + (IF ~use3 THEN 64 ELSE 0) + (IF ~use4 THEN 64 ELSE 0),
     Ranges |-> <<[Start |-> 0, End |-> 127, Used |-> TRUE]>>
                \o (IF ~use4 THEN <<[Start |-> 128, End |-> 191, Used |-> TRUE]>> ELSE <<>>)
                \o (IF ~use3 THEN <<[Start |-> 192, End |-> 255, Used |-> TRUE]>> ELSE <<>>),
     Sections |-> [Base |-> TRUE, Section3 |-> use3, Section4 |-> use4]]

\* lines 794-848: the ranges of available sprites and their total
AvailableSprites(use3, use4) ==
    [Total |-> 128 + (IF ~use3 THEN 64 ELSE 0) + (IF ~use4 THEN 64 ELSE 0),
     Ranges |-> <<[Start |-> 0, End |-> 127, Used |-> TRUE]>>
                \o (IF ~use3 THEN <<[Start |-> 128, End |-> 191, Used |-> TRUE]>> ELSE <<>>)
                \o (IF ~use4 THEN <<[Start |-> 192, End |-> 255, Used |-> TRUE]>> ELSE <<>>),
     Sections |-> [Base |-> TRUE, Section3 |-> use3, Section4 |-> use4]]

SpriteSkippedNever(spriteID, use3, use4) == FALSE

\* lines 853-856: the sprites left out
SpriteSkipped(spriteID, use3, use4) ==
    \/ spriteID >= 128 /\ spriteID < 192 /\ use3
    \/ spriteID >= 192 /\ use4

\* lines 862-873: the 8x8 grid of colour indices of the sprite at grid (x, y)
SpritePixels(gfx, x, y) ==
    [i \in 0..7 |-> [j \in 0..7 |->
        IF y * 8 + i < Len(gfx) /\ x * 8 + j < Len(gfx[y * 8 + i + 1])
        THEN parseHexChar(At0(gfx[y * 8 + i + 1], x * 8 + j))
        ELSE 0]]

SpriteUsedFirstRowOnly(pixels) == \E j \in 0..7 : pixels[0][j] # 0

\* lines 876-887
SpriteUsed(pixels) == \E i \in 0..7 : \E j \in 0..7 : pixels[i][j] # 0

SpriteRecordSwapped(gfx, flags, spriteID) ==
    LET x == spriteID \div 16
        y == spriteID % 16
        pixels == SpritePixels(gfx, x, y)
    IN [ID |-> spriteID, X |-> x, Y |-> y, Width |-> 8, Height |-> 8,
        Pixels |-> pixels,
        Flags |-> [Bitfield |-> flags[spriteID], Individual |-> getFlagArray(flags[spriteID])],
        Used |-> SpriteUsed(pixels),
        Filename |-> SpriteFilename(spriteID)]

\* lines 858-903: the record of one sprite
SpriteRecord(gfx, flags, spriteID) ==
    LET x == spriteID % 16
        y == spriteID \div 16
        pixels == SpritePixels(gfx, x, y)
    IN [ID |-> spriteID, X |-> x, Y |-> y, Width |-> 8, Height |-> 8,
        Pixels |-> pixels,
        Flags |-> [Bitfield |-> flags[spriteID], Individual |-> getFlagArray(flags[spriteID])],
        Used |-> SpriteUsed(pixels),
        Filename |-> SpriteFilename(spriteID)]

generateSpriteSheetJSON(gfx, flags, use3, use4) ==
    LET ids == SelectSeq([k \in 1..numSpriteIDs |-> k - 1],
                         LAMBDA id : ~SpriteSkipped(id, use3, use4))
    IN [Version |-> "1.0",
        Sprites |-> [k \in 1..Len(ids) |-> SpriteRecord(gfx, flags, ids[k])],
        Metadata |-> [SpriteWidth |-> 8, SpriteHeight |-> 8,
                      GridWidth |-> 16, GridHeight |-> 16,
                      AvailableSprites |-> AvailableSprites(use3, use4),
                      Palette |-> pico8Palette]]

\* lines 955-969: the image rebuilt from a sprite record
SpriteImageFromJSON(sprite, palette) ==
    [w |-> sprite.Width, h |-> sprite.Height,
     pix |-> [y \in 0..(sprite.Height - 1) |-> [x \in 0..(sprite.Width - 1) |->
        LET colorIndex == sprite.Pixels[y][x] IN
        IF colorIndex >= 0 /\ colorIndex < Len(palette)
        THEN palette[colorIndex + 1]
        ELSE <<0, 0, 0, 255>>]]]

\* createIndividualSpritePNGs: the files written from the document, one for
\* each sprite whose ID lies in one of the document's ranges
createIndividualSpritePNGs(doc) ==
    LET ranges == doc.Metadata.AvailableSprites.Ranges
        avail == { k \in 1..Len(doc.Sprites) :
                     \E r \in 1..Len(ranges) :
                        /\ doc.Sprites[k].ID >= ranges[r].Start
                        /\ doc.Sprites[k].ID <= ranges[r].End }
    IN [path \in {"sprites/" \o doc.Sprites[k].Filename : k \in avail} |->
          LET k == CHOOSE j \in avail :
                     /\ "sprites/" \o doc.Sprites[j].Filename = path
                     /\ \A j2 \in avail :
                          "sprites/" \o doc.Sprites[j2].Filename = path => j2 <= j
          IN SpriteImageFromJSON(doc.Sprites[k], doc.Metadata.Palette)]

-----------------------------------------------------------------------------
(* generateMapJSON *)

\* the cells of rows lo..hi appended in order: rows[lo] \o ... \o rows[hi]
RECURSIVE ConcatRows(_, _, _)
ConcatRows(rows, lo, hi) ==
    IF lo > hi THEN <<>>
    ELSE IF lo = hi THEN rows[lo]
    ELSE LET mid == (lo + hi) \div 2 IN
         ConcatRows(rows, lo, mid) \o ConcatRows(rows, mid + 1, hi)

Cell(x, y, sprite) == [X |-> x, Y |-> y, Sprite |-> sprite]

BaseRowCellsColumnFirst(map, y, width) ==
    IF y < Len(map)
    THEN LET line == map[y + 1]
             xs == SelectSeq([k \in 1..width |-> k - 1], LAMBDA x : x * 2 + 1 < Len(line))
         IN [k \in 1..Len(xs) |->
               Cell(xs[k], y, parseHexChar(At0(line, xs[k] * 2 + 1)) * 16
                              + parseHexChar(At0(line, xs[k] * 2)))]
    ELSE <<>>

\* lines 288-308: the cells of base row y
BaseRowCells(map, y, width) ==
    IF y < Len(map)
    THEN LET line == map[y + 1]
             xs == SelectSeq([k \in 1..width |-> k - 1], LAMBDA x : x * 2 + 1 < Len(line))
         IN [k \in 1..Len(xs) |->
               Cell(xs[k], y, parseHexChar(At0(line, xs[k] * 2)) * 16
                              + parseHexChar(At0(line, xs[k] * 2 + 1)))]
    ELSE <<>>

SectionRowCellsNoHalving(line, y, mapRow) ==
    [k \in 1..(Len(line) \div 2) |->
        LET x == k - 1
            spriteX == parseHexChar(At0(line, x * 2))
            spriteY == parseHexChar(At0(line, x * 2 + 1))
        IN Cell(x, mapRow + y, spriteY * 16 + spriteX)]

\* the cells of a section row without those of sprite 0
SectionRowCellsSparse(line, y, mapRow) ==
    SelectSeq([k \in 1..(Len(line) \div 2) |->
                  LET x == k - 1
                      spriteX == parseHexChar(At0(line, x * 2))
                      spriteY == parseHexChar(At0(line, x * 2 + 1))
                  IN IF y % 2 = 0
                     THEN Cell(x, mapRow + (y \div 2), spriteY * 16 + spriteX)
                     ELSE Cell(64 + x, mapRow + ((y - 1) \div 2), spriteY * 16 + spriteX)],
              LAMBDA c : c.Sprite # 0)

\* lines 319-348 and 361-390: the cells of row y of a dual-purpose section
\* whose first map row is mapRow
SectionRowCells(line, y, mapRow) ==
    [k \in 1..(Len(line) \div 2) |->
        LET x == k - 1
            spriteX == parseHexChar(At0(line, x * 2))
            spriteY == parseHexChar(At0(line, x * 2 + 1))
        IN IF y % 2 = 0
           THEN Cell(x, mapRow + (y \div 2), spriteY * 16 + spriteX)
           ELSE Cell(64 + x, mapRow + ((y - 1) \div 2), spriteY * 16 + spriteX)]

\* lines 311-350 and 353-392: the cells of a dual-purpose section
SectionCells(gfx, startRow, mapRow) ==
    LET data == SectionSlice(gfx, startRow) IN
    IF data.isNil THEN <<>>
    ELSE ConcatRows([k \in 1..Len(data.rows) |-> SectionRowCells(data.rows[k], k - 1, mapRow)],
                    1, Len(data.rows))

MapSheetHeightBand3Wins(use3, use4) ==
    IF use3 THEN 48 ELSE IF use4 THEN 64 ELSE 32

\* lines 269-276: height is 32, then 48 if --3, then 64 if --4
MapSheetHeight(use3, use4) ==
    IF use4 THEN 64 ELSE IF use3 THEN 48 ELSE 32

generateMapJSONBand4First(map, gfx, use3, use4) ==
    LET width == mapWidth IN
       [Version |-> "1.0", Name |-> "main",
        Width |-> width,
        Height |-> MapSheetHeight(use3, use4),
        Cells |-> ConcatRows([k \in 1..baseMapRows |-> BaseRowCells(map, k - 1, width)],
                             1, baseMapRows)
                  \o (IF use4 THEN SectionCells(gfx, section4StartRow, section4MapRow) ELSE <<>>)
                  \o (IF use3 THEN SectionCells(gfx, section3StartRow, section3MapRow) ELSE <<>>)]

\* lines 267-395: the base cells, then the cells of band 3, then those of band 4
generateMapJSON(map, gfx, use3, use4) ==
    LET width == mapWidth IN
       [Version |-> "1.0", Name |-> "main",
        Width |-> width,
        Height |-> MapSheetHeight(use3, use4),
        Cells |-> ConcatRows([k \in 1..baseMapRows |-> BaseRowCells(map, k - 1, width)],
                             1, baseMapRows)
                  \o (IF use3 THEN SectionCells(gfx, section3StartRow, section3MapRow) ELSE <<>>)
                  \o (IF use4 THEN SectionCells(gfx, section4StartRow, section4MapRow) ELSE <<>>)]

-----------------------------------------------------------------------------
(* main *)

Init ==
    /\ pc = "parse"
    /\ \/ \E shape \in Shapes, seed \in 0..MaxSeed : cart = CartFile(shape, seed)
       \/ cart = LayeredCart
    /\ useSection3 \in BOOLEAN
    /\ useSection4 \in BOOLEAN
    /\ gfxData = Nil
    /\ mapData = Nil
    /\ flagData = Nil
    /\ dualPurposeSection1 = Nil
    /\ dualPurposeSection2 = Nil
    /\ spriteSheet = Nil
    /\ mapHeight = 0
    /\ mapImage = Nil
    /\ numSections = 0
    /\ jsonData = Nil
    /\ mapSheet = Nil
    /\ files = <<>>

ParseCartMapUnchecked ==
    /\ pc = "parse"
    /\ LET gfx == parseSection(cart, GfxMarker)
           map == parseSection(cart, MapMarker)
       IN IF Len(gfx) = 0
          THEN /\ pc' = "exit1"
               /\ gfxData' = gfx
               /\ UNCHANGED <<mapData, flagData>>
          ELSE /\ pc' = "prepare"
               /\ gfxData' = gfx
               /\ mapData' = map
               /\ flagData' = parseFlagSection(cart)
    /\ UNCHANGED <<cart, useSection3, useSection4, dualPurposeSection1,
                   dualPurposeSection2, spriteSheet, mapHeight, mapImage,
                   numSections, jsonData, mapSheet, files>>

\* main, lines 155-168: the three sections; an empty __gfx__ or __map__ exits
ParseCart ==
    /\ pc = "parse"
    /\ LET gfx == parseSection(cart, GfxMarker)
           map == parseSection(cart, MapMarker)
       IN IF Len(gfx) = 0
          THEN /\ pc' = "exit1"
               /\ gfxData' = gfx
               /\ UNCHANGED <<mapData, flagData>>
          ELSE IF Len(map) = 0
          THEN /\ pc' = "exit1"
               /\ gfxData' = gfx
               /\ mapData' = map
               /\ UNCHANGED flagData
          ELSE /\ pc' = "prepare"
               /\ gfxData' = gfx
               /\ mapData' = map
               /\ flagData' = parseFlagSection(cart)
    /\ UNCHANGED <<cart, useSection3, useSection4, dualPurposeSection1,
                   dualPurposeSection2, spriteSheet, mapHeight, mapImage,
                   numSections, jsonData, mapSheet, files>>

\* main, lines 170-208: the dual-purpose slices, the atlas and the map height
Prepare ==
    /\ pc = "prepare"
    /\ dualPurposeSection1' =
          IF useSection3 THEN SectionSlice(gfxData, section3StartRow) ELSE NilSlice
    /\ dualPurposeSection2' =
          IF useSection4 THEN SectionSlice(gfxData, section4StartRow) ELSE NilSlice
    /\ spriteSheet' = reconstructImage(gfxData)
    /\ mapHeight' = MainMapHeight(useSection3, useSection4)
    /\ pc' = "renderMap"
    /\ UNCHANGED <<cart, useSection3, useSection4, gfxData, mapData, flagData,
                   mapImage, numSections, jsonData, mapSheet, files>>

\* main, lines 210-214: the map is rendered and written to map.png
RenderMap ==
    /\ pc = "renderMap"
    /\ mapImage' = renderMap(mapData, dualPurposeSection1, dualPurposeSection2,
                             mapWidth, mapHeight)
    /\ files' = ("map.png" :> mapImage') @@ files
    /\ pc' = "saveSprites"
    /\ UNCHANGED <<cart, useSection3, useSection4, gfxData, mapData, flagData,
                   dualPurposeSection1, dualPurposeSection2, spriteSheet,
                   mapHeight, numSections, jsonData, mapSheet>>

\* main, lines 216-217: saveSprites
SaveSprites ==
    /\ pc = "saveSprites"
    /\ files' = saveSprites(spriteSheet, useSection3, useSection4) @@ files
    /\ pc' = "combine"
    /\ UNCHANGED <<cart, useSection3, useSection4, gfxData, mapData, flagData,
                   dualPurposeSection1, dualPurposeSection2, spriteSheet,
                   mapHeight, mapImage, numSections, jsonData, mapSheet>>

\* main, lines 219-230: the sections are combined into spritesheet.png
CombineSections ==
    /\ pc = "combine"
    /\ numSections' = MainNumSections(useSection3, useSection4)
    /\ files' = combineSectionsIntoSpriteSheet(files, numSections').files
    /\ pc' = "spriteJSON"
    /\ UNCHANGED <<cart, useSection3, useSection4, gfxData, mapData, flagData,
                   dualPurposeSection1, dualPurposeSection2, spriteSheet,
                   mapHeight, mapImage, jsonData, mapSheet>>

\* main, lines 232-243: spritesheet.json
SpriteSheetJSON ==
    /\ pc = "spriteJSON"
    /\ jsonData' = generateSpriteSheetJSON(gfxData, flagData, useSection3, useSection4)
    /\ files' = ("spritesheet.json" :> jsonData') @@ files
    /\ pc' = "spritePNGs"
    /\ UNCHANGED <<cart, useSection3, useSection4, gfxData, mapData, flagData,
                   dualPurposeSection1, dualPurposeSection2, spriteSheet,
                   mapHeight, mapImage, numSections, mapSheet>>

\* main, lines 245-250: the sprite files are written again, from spritesheet.json
SpritePNGs ==
    /\ pc = "spritePNGs"
    /\ files' = createIndividualSpritePNGs(files["spritesheet.json"]) @@ files
    /\ pc' = "mapJSON"
    /\ UNCHANGED <<cart, useSection3, useSection4, gfxData, mapData, flagData,
                   dualPurposeSection1, dualPurposeSection2, spriteSheet,
                   mapHeight, mapImage, numSections, jsonData, mapSheet>>

\* main, lines 252-263: map.json
MapJSON ==
    /\ pc = "mapJSON"
    /\ mapSheet' = generateMapJSON(mapData, gfxData, useSection3, useSection4)
    /\ files' = ("map.json" :> mapSheet') @@ files
    /\ pc' = "done"
    /\ UNCHANGED <<cart, useSection3, useSection4, gfxData, mapData, flagData,
                   dualPurposeSection1, dualPurposeSection2, spriteSheet,
                   mapHeight, mapImage, numSections, jsonData>>

Next ==
    \/ ParseCart
    \/ Prepare
    \/ RenderMap
    \/ SaveSprites
    \/ CombineSections
    \/ SpriteSheetJSON
    \/ SpritePNGs
    \/ MapJSON

Spec == Init /\ [][Next]_vars

-----------------------------------------------------------------------------
(* main with failing writes *)

\* In SpecIO a write to the file system may fail (the directory cannot be
\* made or the file cannot be created): the path is then left as it was.  The
\* cartridge is a fixed one with both required sections; the options vary.

IOCart == CartFile(Shape(ShortGfxRows, ShortGfxLen, ShortMapRows, ShortMapLen, 1, ShortMapLen), 1)

InitIO ==
    /\ pc = "parse"
    /\ cart = IOCart
    /\ useSection3 \in BOOLEAN
    /\ useSection4 \in BOOLEAN
    /\ gfxData = Nil
    /\ mapData = Nil
    /\ flagData = Nil
    /\ dualPurposeSection1 = Nil
    /\ dualPurposeSection2 = Nil
    /\ spriteSheet = Nil
    /\ mapHeight = 0
    /\ mapImage = Nil
    /\ numSections = 0
    /\ jsonData = Nil
    /\ mapSheet = Nil
    /\ files = <<>>

RenderMapIOFatal ==
    /\ pc = "renderMap"
    /\ mapImage' = renderMap(mapData, dualPurposeSection1, dualPurposeSection2,
                             mapWidth, mapHeight)
    /\ \E ok \in BOOLEAN :
          IF ok THEN files' = ("map.png" :> mapImage') @@ files /\ pc' = "saveSprites"
          ELSE files' = files /\ pc' = "exit1"
    /\ UNCHANGED <<cart, useSection3, useSection4, gfxData, mapData, flagData,
                   dualPurposeSection1, dualPurposeSection2, spriteSheet,
                   mapHeight, numSections, jsonData, mapSheet>>

\* main, lines 210-214: a failure of saveAsPng is reported and main goes on
RenderMapIO ==
    /\ pc = "renderMap"
    /\ mapImage' = renderMap(mapData, dualPurposeSection1, dualPurposeSection2,
                             mapWidth, mapHeight)
    /\ \E ok \in BOOLEAN :
          files' = IF ok THEN ("map.png" :> mapImage') @@ files ELSE files
    /\ pc' = "saveSprites"
    /\ UNCHANGED <<cart, useSection3, useSection4, gfxData, mapData, flagData,
                   dualPurposeSection1, dualPurposeSection2, spriteSheet,
                   mapHeight, numSections, jsonData, mapSheet>>

\* the sets of paths whose write fails in saveSprites: none, one sprite file,
\* one section file, or all of them (os.MkdirAll fails, lines 596-599)
SaveFailures(written) ==
    { {}, {SpritePath(0)}, {SectionPath(1)}, DOMAIN written }

\* main, lines 216-217, and saveSprites, lines 596-651: every failed write is
\* reported and the loops go on
SaveSpritesIO ==
    /\ pc = "saveSprites"
    /\ LET written == saveSprites(spriteSheet, useSection3, useSection4) IN
       \E failed \in SaveFailures(written) :
          files' = [path \in (DOMAIN written) \ failed |-> written[path]] @@ files
    /\ pc' = "combine"
    /\ UNCHANGED <<cart, useSection3, useSection4, gfxData, mapData, flagData,
                   dualPurposeSection1, dualPurposeSection2, spriteSheet,
                   mapHeight, mapImage, numSections, jsonData, mapSheet>>

\* main, lines 219-230: an error of the combiner (a section file that cannot
\* be opened, or spritesheet.png that cannot be written) is reported and main
\* goes on
CombineSectionsIO ==
    /\ pc = "combine"
    /\ numSections' = MainNumSections(useSection3, useSection4)
    /\ LET combined == combineSectionsIntoSpriteSheet(files, numSections') IN
       \E ok \in BOOLEAN :
          files' = IF ok /\ ~combined.err THEN combined.files ELSE files
    /\ pc' = "spriteJSON"
    /\ UNCHANGED <<cart, useSection3, useSection4, gfxData, mapData, flagData,
                   dualPurposeSection1, dualPurposeSection2, spriteSheet,
                   mapHeight, mapImage, jsonData, mapSheet>>

\* main, lines 232-243: when spritesheet.json cannot be saved, os.Exit(1)
SpriteSheetJSONIO ==
    /\ pc = "spriteJSON"
    /\ jsonData' = generateSpriteSheetJSON(gfxData, flagData, useSection3, useSection4)
    /\ \E ok \in BOOLEAN :
          IF ok
          THEN files' = ("spritesheet.json" :> jsonData') @@ files /\ pc' = "spritePNGs"
          ELSE files' = files /\ pc' = "exitSpriteJSON"
    /\ UNCHANGED <<cart, useSection3, useSection4, gfxData, mapData, flagData,
                   dualPurposeSection1, dualPurposeSection2, spriteSheet,
                   mapHeight, mapImage, numSections, mapSheet>>

\* main, lines 245-250, and createIndividualSpritePNGs, lines 919-977: the
\* sprites are written in the order of the document; the first failure (at
\* record failAt; 0: the document cannot be read or the directory cannot be
\* made; Len + 1: no failure) returns an error, and main calls os.Exit(1)
SpritePNGsIO ==
    /\ pc = "spritePNGs"
    /\ LET doc == files["spritesheet.json"] IN
       \E failAt \in {0, 1, LateFailure, Len(doc.Sprites) + 1} :
          LET done == [doc EXCEPT !.Sprites = SubSeq(doc.Sprites, 1, failAt - 1)] IN
          /\ files' = createIndividualSpritePNGs(done) @@ files
          /\ pc' = IF failAt > Len(doc.Sprites) THEN "mapJSON" ELSE "exitSpritePNGs"
    /\ UNCHANGED <<cart, useSection3, useSection4, gfxData, mapData, flagData,
                   dualPurposeSection1, dualPurposeSection2, spriteSheet,
                   mapHeight, mapImage, numSections, jsonData, mapSheet>>

\* main, lines 252-263: when map.json cannot be saved, os.Exit(1)
MapJSONIO ==
    /\ pc = "mapJSON"
    /\ mapSheet' = generateMapJSON(mapData, gfxData, useSection3, useSection4)
    /\ \E ok \in BOOLEAN :
          IF ok
          THEN files' = ("map.json" :> mapSheet') @@ files /\ pc' = "done"
          ELSE files' = files /\ pc' = "exitMapJSON"
    /\ UNCHANGED <<cart, useSection3, useSection4, gfxData, mapData, flagData,
                   dualPurposeSection1, dualPurposeSection2, spriteSheet,
                   mapHeight, mapImage, numSections, jsonData>>

NextIO ==
    \/ ParseCart
    \/ Prepare
    \/ RenderMapIO
    \/ SaveSpritesIO
    \/ CombineSectionsIO
    \/ SpriteSheetJSONIO
    \/ SpritePNGsIO
    \/ MapJSONIO

SpecIO == InitIO /\ [][NextIO]_vars

-----------------------------------------------------------------------------
(* main on small files of marker and data lines *)

\* In SpecScan the cartridge is any file of at most MaxLines lines, each one
\* of: "__gfx__", "__gfx__x", "__map__", "__", "_0", "0f" and the empty line.

ScanLineKinds ==
    { GfxMarker, GfxMarker \o <<120>>, MapMarker, MarkerPrefix, <<95, 48>>, <<48, 102>>, <<>> }

InitScan ==
    /\ pc = "parse"
    /\ cart \in UNION { [1..n -> ScanLineKinds] : n \in 0..MaxLines }
    /\ useSection3 = FALSE
    /\ useSection4 = FALSE
    /\ gfxData = Nil
    /\ mapData = Nil
    /\ flagData = Nil
    /\ dualPurposeSection1 = Nil
    /\ dualPurposeSection2 = Nil
    /\ spriteSheet = Nil
    /\ mapHeight = 0
    /\ mapImage = Nil
    /\ numSections = 0
    /\ jsonData = Nil
    /\ mapSheet = Nil
    /\ files = <<>>

SpecScan == InitScan /\ [][ParseCart]_vars

-----------------------------------------------------------------------------
(* Properties *)

JsonDone == pc \in {"spritePNGs", "mapJSON", "done"}
Prepared == pc \in {"renderMap", "saveSprites", "combine", "spriteJSON",
                    "spritePNGs", "mapJSON", "done"}

\* the sprite IDs of a dual-purpose band that an option has turned into map data
ActiveBandIDs == (IF useSection3 THEN 128..191 ELSE {}) \cup (IF useSection4 THEN 192..255 ELSE {})

RangeIDs(ranges) == UNION { ranges[a].Start .. ranges[a].End : a \in 1..Len(ranges) }

\* '0'..'9', 'a'..'f', 'A'..'F'
IsHexDigit(c) ==
    \/ 48 <= c /\ c <= 57
    \/ 97 <= c /\ c <= 102
    \/ 65 <= c /\ c <= 70

\* the value of a hex digit, read off the digit itself
HexValue(c) ==
    CHOOSE v \in 0..15 :
        \/ v < 10 /\ c = 48 + v
        \/ v >= 10 /\ c \in {97 + (v - 10), 65 + (v - 10)}

\* C1: availableSprites.ranges is a list of pairwise disjoint ID intervals
\* whose union is 0..255 without 128..191 when band 3 is active and without
\* 192..255 when band 4 is active.
C1_RangesPartition ==
    JsonDone =>
        LET ranges == jsonData.Metadata.AvailableSprites.Ranges IN
        /\ \A a \in 1..Len(ranges) : ranges[a].Start <= ranges[a].End
        /\ \A a, b \in 1..Len(ranges) :
              a # b => ranges[a].End < ranges[b].Start \/ ranges[b].End < ranges[a].Start
        /\ RangeIDs(ranges) = (0..255) \ ActiveBandIDs

C1_Witness ==
    /\ JsonDone
    /\ useSection3 /\ ~useSection4
    /\ jsonData.Metadata.AvailableSprites.Ranges =
          <<[Start |-> 0, End |-> 127, Used |-> TRUE],
            [Start |-> 192, End |-> 255, Used |-> TRUE]>>

\* C2: exactly one sprite record for each ID of the available ranges, in
\* ascending ID order, none for an ID of an active band, and
\* availableSprites.total is the number of records: 256, 192, 192, 128.
C2_OneRecordPerAvailableID ==
    JsonDone =>
        LET sprites == jsonData.Sprites
            avail == jsonData.Metadata.AvailableSprites
            ids == RangeIDs(avail.Ranges)
        IN /\ \A id \in ids : Cardinality({k \in 1..Len(sprites) : sprites[k].ID = id}) = 1
           /\ \A k \in 1..Len(sprites) : sprites[k].ID \in ids \ ActiveBandIDs
           /\ \A k \in 1..(Len(sprites) - 1) : sprites[k].ID < sprites[k + 1].ID
           /\ avail.Total = Len(sprites)
           /\ avail.Total = CASE ~useSection3 /\ ~useSection4 -> 256
                              [] useSection3 /\ ~useSection4 -> 192
                              [] ~useSection3 /\ useSection4 -> 192
                              [] useSection3 /\ useSection4 -> 128

C2_Witness ==
    /\ JsonDone
    /\ ~useSection3 /\ useSection4
    /\ Len(jsonData.Sprites) = 192
    /\ jsonData.Sprites[192].ID = 191
    /\ Len(gfxData) < 128

\* C3 as claimed: the map height, in MapSheet and as handed to renderMap, is 32
\* with no band active, 48 with exactly one and 64 with both; the width is 128.
C3_HeightByNumberOfBands ==
    pc = "done" =>
        LET n == (IF useSection3 THEN 1 ELSE 0) + (IF useSection4 THEN 1 ELSE 0)
            height == CASE n = 0 -> 32 [] n = 1 -> 48 [] n = 2 -> 64
        IN /\ mapSheet.Height = height
           /\ mapImage.h = height * tileSize
           /\ mapSheet.Width = 128
           /\ mapImage.w = 128 * tileSize

\* C3 amended: the map height, in MapSheet and as handed to renderMap, is 32
\* with no band active, 48 with band 3 alone and 64 whenever band 4 is active;
\* the width is 128.
C3_HeightByHighestBand ==
    pc = "done" =>
        LET height == CASE ~useSection3 /\ ~useSection4 -> 32
                        [] useSection3 /\ ~useSection4 -> 48
                        [] useSection4 -> 64
        IN /\ mapSheet.Height = height
           /\ mapHeight = height
           /\ mapImage.h = height * tileSize
           /\ DOMAIN mapImage.tiles = 0..(height - 1)
           /\ mapSheet.Width = 128
           /\ mapImage.w = 128 * tileSize
           /\ \A ty \in DOMAIN mapImage.tiles : DOMAIN mapImage.tiles[ty] = 0..127

C3_Witness ==
    /\ pc = "done"
    /\ ~useSection3 /\ useSection4
    /\ mapSheet.Height = 64
    /\ mapImage.h = 512

MapCellSet == { mapSheet.Cells[k] : k \in 1..Len(mapSheet.Cells) }

\* the cells claimed for an active band read from atlas rows startRow.., whose
\* first map row is mapRow, as far as the atlas has the rows and the digits
BandCellsEmitted(cells, startRow, mapRow) ==
    \A y \in 0..31 : \A x \in 0..63 :
        (/\ startRow + y < Len(gfxData)
         /\ 2 * x + 1 < Len(gfxData[startRow + y + 1])
         /\ IsHexDigit(gfxData[startRow + y + 1][2 * x + 1])
         /\ IsHexDigit(gfxData[startRow + y + 1][2 * x + 2]))
        => LET d1 == HexValue(gfxData[startRow + y + 1][2 * x + 1])
               d2 == HexValue(gfxData[startRow + y + 1][2 * x + 2])
           IN IF y % 2 = 0
              THEN [X |-> x, Y |-> mapRow + y \div 2, Sprite |-> d2 * 16 + d1] \in cells
              ELSE [X |-> 64 + x, Y |-> mapRow + (y - 1) \div 2, Sprite |-> d2 * 16 + d1] \in cells

\* C4: for an active band with base row B (32 for band 3 = atlas rows 64..95,
\* 48 for band 4 = atlas rows 96..127), band row y and tile column x in 0..63,
\* the map JSON holds a cell with sprite d2*16 + d1 (d1, d2 the hex digits at
\* 2x and 2x+1 of the atlas row) at (x, B + y/2) for even y and at
\* (64 + x, B + (y-1)/2) for odd y.
C4_BandCells ==
    pc = "done" =>
        LET cells == MapCellSet IN
        /\ useSection3 => BandCellsEmitted(cells, 64, 32)
        /\ useSection4 => BandCellsEmitted(cells, 96, 48)

C4_Witness ==
    /\ pc = "done"
    /\ useSection3 /\ useSection4
    /\ Len(gfxData) = 128
    /\ \E k \in 1..Len(mapSheet.Cells) :
          /\ mapSheet.Cells[k].X = 127 /\ mapSheet.Cells[k].Y = 63
          /\ mapSheet.Cells[k].Sprite > 0
    /\ \E k \in 1..Len(mapSheet.Cells) :
          /\ mapSheet.Cells[k].X = 0 /\ mapSheet.Cells[k].Y = 33
          /\ mapSheet.Cells[k].Sprite =
                HexValue(gfxData[67][2]) * 16 + HexValue(gfxData[67][1])
          /\ mapSheet.Cells[k].Sprite > 0

\* the positions of the base section that have both characters of their pair
BasePositions ==
    { <<x, y>> \in (0..127) \X (0..31) :
        y < Len(mapData) /\ 2 * x + 1 < Len(mapData[y + 1]) }

\* C5: for every row y in 0..31 of the tilemap and every x in 0..127 with both
\* characters of the pair present, the map JSON holds exactly one cell at
\* (x, y), and its sprite is first digit * 16 + second digit, also when the
\* pair is "00".
C5_BaseCells ==
    pc = "done" =>
        LET cells == MapCellSet
            inBase == { k \in 1..Len(mapSheet.Cells) : mapSheet.Cells[k].Y < 32 }
        IN /\ Cardinality(inBase) = Cardinality(BasePositions)
           /\ \A p \in BasePositions :
                \E c \in cells :
                    /\ c.X = p[1] /\ c.Y = p[2]
                    /\ LET c1 == mapData[p[2] + 1][2 * p[1] + 1]
                           c2 == mapData[p[2] + 1][2 * p[1] + 2]
                       IN (IsHexDigit(c1) /\ IsHexDigit(c2))
                            => c.Sprite = HexValue(c1) * 16 + HexValue(c2)

C5_Witness ==
    /\ pc = "done"
    /\ mapData[1][1] = 49 /\ mapData[1][2] = 50
    /\ mapSheet.Cells[1] = [X |-> 0, Y |-> 0, Sprite |-> 18]
    /\ Len(mapData) = 32
    /\ ~useSection3 /\ ~useSection4
    /\ Len(mapSheet.Cells) = 4096

\* C6: every sprite record has id = y*16 + x, (x, y) = (id % 16, id / 16) with
\* x and y in 0..15, and the filename sprite_NNN.png, NNN the id in three digits.
C6_SpriteIDRoundTrip ==
    JsonDone =>
        \A k \in 1..Len(jsonData.Sprites) :
            LET sprite == jsonData.Sprites[k] IN
            /\ sprite.ID = sprite.Y * 16 + sprite.X
            /\ sprite.X = sprite.ID % 16
            /\ sprite.Y = sprite.ID \div 16
            /\ sprite.X \in 0..15
            /\ sprite.Y \in 0..15
            /\ sprite.Filename =
                  "sprite_" \o DigitChar[(sprite.ID \div 100) + 1]
                            \o DigitChar[((sprite.ID \div 10) % 10) + 1]
                            \o DigitChar[(sprite.ID % 10) + 1] \o ".png"

C6_Witness ==
    /\ JsonDone
    /\ \E k \in 1..Len(jsonData.Sprites) :
          /\ jsonData.Sprites[k].ID = 200
          /\ jsonData.Sprites[k].X = 8
          /\ jsonData.Sprites[k].Y = 12
          /\ jsonData.Sprites[k].Filename = "sprite_200.png"
    /\ jsonData.Sprites[8].Filename = "sprite_007.png"

\* C7: a sprite record has used = true exactly if one of the 64 entries of its
\* pixel grid is not zero; a sprite whose atlas rows or columns are all missing
\* has used = false.
C7_UsedIffNonZeroPixel ==
    JsonDone =>
        \A k \in 1..Len(jsonData.Sprites) :
            LET sprite == jsonData.Sprites[k] IN
            /\ DOMAIN sprite.Pixels = 0..7
            /\ \A i \in 0..7 : DOMAIN sprite.Pixels[i] = 0..7
            /\ sprite.Used <=> \E i \in 0..7 : \E j \in 0..7 : sprite.Pixels[i][j] # 0
            /\ (\A i \in 0..7 :
                   \/ sprite.Y * 8 + i >= Len(gfxData)
                   \/ sprite.X * 8 >= Len(gfxData[sprite.Y * 8 + i + 1]))
               => ~sprite.Used

C7_Witness ==
    /\ JsonDone
    /\ Len(gfxData[1]) < 24
    /\ ~jsonData.Sprites[4].Used
    /\ \E k \in 1..Len(jsonData.Sprites) :
          /\ jsonData.Sprites[k].Used
          /\ \A j \in 0..7 : jsonData.Sprites[k].Pixels[0][j] = 0

\* C8 as claimed: reconstructImage gives a 128 x 128 raster whose pixel (x, y)
\* is Palette[v] when character x of line y is a hex digit of value v, and
\* Palette[0] when that character is missing or is no hex digit.
C8_AtlasPixelsArePaletteColours ==
    Prepared =>
        /\ spriteSheet.w = 128 /\ spriteSheet.h = 128
        /\ \A y \in 0..127 : \A x \in 0..127 :
              spriteSheet.pix[y][x] =
                 IF y < Len(gfxData) /\ x < Len(gfxData[y + 1])
                    /\ IsHexDigit(gfxData[y + 1][x + 1])
                 THEN pico8Palette[HexValue(gfxData[y + 1][x + 1]) + 1]
                 ELSE pico8Palette[1]

\* C9 as claimed: a tile pair with an invalid hex digit gives sprite 0 in the
\* map JSON and no atlas tile in the rendered map, and every cell's sprite is
\* in 0..255.
C9_InvalidPairIsBlank ==
    pc = "done" =>
        /\ \A k \in 1..Len(mapSheet.Cells) : mapSheet.Cells[k].Sprite \in 0..255
        /\ LET cells == MapCellSet IN
           \A p \in BasePositions :
              LET c1 == mapData[p[2] + 1][2 * p[1] + 1]
                  c2 == mapData[p[2] + 1][2 * p[1] + 2]
              IN (~IsHexDigit(c1) \/ ~IsHexDigit(c2))
                   => /\ [X |-> p[1], Y |-> p[2], Sprite |-> 0] \in cells
                      /\ mapImage.tiles[p[2]][p[1]].kind # "sprite"

\* C10 as claimed: for every available sprite ID the sprite file holds the 8x8
\* block of the atlas at (x*8, y*8), as saveSprites wrote it and still after
\* createIndividualSpritePNGs has written it again from the JSON pixel grid.
C10_SpriteFilesKeepAtlasBlock ==
    pc \in {"combine", "spriteJSON", "spritePNGs", "mapJSON", "done"} =>
        \A id \in (0..255) \ ActiveBandIDs :
            /\ SpritePath(id) \in DOMAIN files
            /\ files[SpritePath(id)] =
                  SubImage(spriteSheet, (id % 16) * 8, (id \div 16) * 8, 8, 8)

Combined == pc \in {"spriteJSON", "spritePNGs", "mapJSON", "done"}

DecodedPixels ==
    UNION { LET sprite == jsonData.Sprites[k] IN
            UNION { { <<gfxData[sprite.Y * 8 + i + 1][sprite.X * 8 + j + 1],
                        sprite.Pixels[i][j]>> :
                        j \in { b \in 0..7 :
                                  /\ sprite.Y * 8 + i < Len(gfxData)
                                  /\ sprite.X * 8 + b < Len(gfxData[sprite.Y * 8 + i + 1]) } } :
                    i \in 0..7 } :
            k \in 1..Len(jsonData.Sprites) }

LowerHexDigits == (48..57) \cup (97..102)

\* C12: parseHexChar gives a value in 0..15 for 0-9, a-f, A-F, the same value
\* for the upper and the lower case of a letter, different values for different
\* digits of 0-9a-f, and -1 for every other character: for the decoded atlas
\* characters as stored in the pixel grids, and for every code point up to
\* MaxRune.
C12_ParseHexChar ==
    /\ JsonDone =>
          \A p \in DecodedPixels :
             /\ IsHexDigit(p[1]) => p[2] \in 0..15 /\ p[2] = HexValue(p[1])
             /\ ~IsHexDigit(p[1]) => p[2] = -1
             /\ \A q \in DecodedPixels :
                   /\ (p[1] >= 97 /\ p[1] <= 102 /\ q[1] = p[1] - 32) => q[2] = p[2]
                   /\ (p[1] \in LowerHexDigits /\ q[1] \in LowerHexDigits /\ p[1] # q[1])
                         => p[2] # q[2]
    /\ \A c \in 0..MaxRune :
          /\ IsHexDigit(c) => parseHexChar(c) \in 0..15 /\ parseHexChar(c) = HexValue(c)
          /\ (c >= 97 /\ c <= 102) => parseHexChar(c) = parseHexChar(c - 32)
          /\ ~IsHexDigit(c) => parseHexChar(c) = -1
          /\ \A d \in LowerHexDigits :
                (c \in LowerHexDigits /\ c # d) => parseHexChar(c) # parseHexChar(d)

C12_Witness ==
    /\ JsonDone
    /\ {<<48, 0>>, <<57, 9>>, <<97, 10>>, <<65, 10>>, <<102, 15>>, <<70, 15>>,
        <<103, -1>>, <<71, -1>>, <<47, -1>>, <<58, -1>>, <<64, -1>>, <<96, -1>>,
        <<32, -1>>} \subseteq DecodedPixels

\* a section of the cartridge has no line: no line with the marker as prefix is
\* followed by a line that does not start with "__"
SectionMissing(marker) ==
    ~ \E i \in 1..(Len(cart) - 1) :
          HasPrefix(cart[i], marker) /\ ~HasPrefix(cart[i + 1], MarkerPrefix)

\* C13: when the graphics or the tilemap section is absent or empty, the run
\* ends in the failure exit with no output file written, and no run ends there
\* otherwise; the graphics section is checked first, so that the tilemap is
\* not even parsed when the graphics are missing.  No file exists before the
\* sections have been checked.
C13_MissingSectionAborts ==
    /\ pc = "parse" => DOMAIN files = {}
    /\ (pc # "parse" /\ (SectionMissing(GfxMarker) \/ SectionMissing(MapMarker)))
          => pc = "exit1"
    /\ pc = "exit1" =>
          /\ DOMAIN files = {}
          /\ SectionMissing(GfxMarker) \/ SectionMissing(MapMarker)
          /\ IF SectionMissing(GfxMarker)
             THEN gfxData = <<>> /\ mapData = Nil
             ELSE mapData = <<>> /\ Len(gfxData) > 0

C13_Witness ==
    /\ pc = "exit1"
    /\ SectionMissing(GfxMarker)
    /\ ~SectionMissing(MapMarker)
    /\ mapData = Nil
    /\ files = <<>>

\* C14 as claimed: a failed write ends the work on that artifact only, so a run
\* that has passed the section checks always goes on to the last stage,
\* map.json.
C14_EveryArtifactAttempted ==
    pc \in {"done", "exit1", "exitSpriteJSON", "exitSpritePNGs", "exitMapJSON"} =>
        pc \in {"done", "exitMapJSON"}

\* C14 amended: whatever becomes of their writes, the stages of map.png, of
\* the sprite and section PNGs and of spritesheet.png hand over to the next
\* stage; the stages of spritesheet.json, of the sprite PNGs from JSON and of
\* map.json hand over only when their writes succeeded and end the run at
\* their failure exit otherwise, with nothing written by a later stage.
C14_FailurePolicy ==
    [][ /\ pc = "renderMap" => pc' = "saveSprites"
        /\ pc = "saveSprites" => pc' = "combine"
        /\ pc = "combine" => pc' = "spriteJSON"
        /\ pc = "spriteJSON" =>
              IF "spritesheet.json" \in DOMAIN files'
              THEN pc' = "spritePNGs"
              ELSE pc' = "exitSpriteJSON" /\ files' = files
        /\ pc = "spritePNGs" =>
              /\ pc' \in {"mapJSON", "exitSpritePNGs"}
              /\ pc' = "mapJSON" =>
                    \A k \in 1..Len(jsonData.Sprites) :
                       /\ SpritePath(jsonData.Sprites[k].ID) \in DOMAIN files'
                       /\ files'[SpritePath(jsonData.Sprites[k].ID)] =
                             SpriteImageFromJSON(jsonData.Sprites[k], pico8Palette)
        /\ pc = "mapJSON" =>
              IF "map.json" \in DOMAIN files'
              THEN pc' = "done"
              ELSE pc' = "exitMapJSON" /\ files' = files
        /\ pc \in {"exitSpriteJSON", "exitSpritePNGs"} =>
              /\ "map.json" \notin DOMAIN files
              /\ pc' = pc /\ files' = files
      ]_vars

C14_Witness ==
    /\ pc = "exitSpriteJSON"
    /\ "map.png" \notin DOMAIN files
    /\ SpritePath(1) \in DOMAIN files
    /\ SpritePath(0) \notin DOMAIN files
    /\ "spritesheet.png" \in DOMAIN files
    /\ "spritesheet.json" \notin DOMAIN files
    /\ "map.json" \notin DOMAIN files

\* C15 as claimed: with --3 or --4 (either or both) exactly the two section
\* images section_0 and section_1 are written and stacked into a sprite sheet
\* of 128 x 64, and sprite files are written for the sprites 0..127 only.
C15_OptionsLimitToBase ==
    (pc = "done" /\ (useSection3 \/ useSection4)) =>
        /\ { i \in 0..3 : SectionPath(i) \in DOMAIN files } = {0, 1}
        /\ numSections = 2
        /\ files["spritesheet.png"].w = 128
        /\ files["spritesheet.png"].h = 64
        /\ { n \in 0..255 : SpritePath(n) \in DOMAIN files } = 0..127

\* no graphics line is longer than the 128 characters of an atlas row
GfxLinesFit == \A y \in 1..Len(gfxData) : Len(gfxData[y]) <= 128

\* row-major order of two cells: by Y, then by X
CellBefore(c, d) == c.Y < d.Y \/ (c.Y = d.Y /\ c.X < d.X)

\* C16: when no graphics line has more than 128 characters, the cells of the
\* map JSON are in strictly increasing row-major order (by y, then x), the
\* base cells (y < 32) before those of band 3 (y in 32..47) before those of
\* band 4 (y in 48..63), so that no two cells have the same position.
C16_CellsRowMajor ==
    (pc = "done" /\ GfxLinesFit) =>
        LET cells == mapSheet.Cells IN
        /\ \A k \in 1..(Len(cells) - 1) : CellBefore(cells[k], cells[k + 1])
        /\ Cardinality({ <<cells[k].X, cells[k].Y>> : k \in 1..Len(cells) }) = Len(cells)
        /\ \A k \in 1..Len(cells) :
              /\ cells[k].Y >= 32 => useSection3 \/ useSection4
              /\ cells[k].Y >= 48 => useSection4

C16_Witness ==
    /\ pc = "done"
    /\ GfxLinesFit
    /\ useSection3 /\ useSection4
    /\ Len(mapSheet.Cells) = 8192
    /\ mapSheet.Cells[4096].X = 127 /\ mapSheet.Cells[4096].Y = 31
    /\ mapSheet.Cells[4097].X = 0 /\ mapSheet.Cells[4097].Y = 32
    /\ mapSheet.Cells[4160].X = 63 /\ mapSheet.Cells[4160].Y = 32
    /\ mapSheet.Cells[4161].X = 64 /\ mapSheet.Cells[4161].Y = 32
    /\ mapSheet.Cells[6144].X = 127 /\ mapSheet.Cells[6144].Y = 47
    /\ mapSheet.Cells[6145].X = 0 /\ mapSheet.Cells[6145].Y = 48

\* the indices of the lines of the cartridge that lie inside a section: the
\* line does not start with "__", and the last line before it that does has
\* the marker as prefix
InsideLines(marker) ==
    { i \in 1..Len(cart) :
        /\ ~HasPrefix(cart[i], MarkerPrefix)
        /\ \E j \in 1..(i - 1) :
              /\ HasPrefix(cart[j], marker)
              /\ \A m \in (j + 1)..(i - 1) : ~HasPrefix(cart[m], MarkerPrefix) }

\* the lines of the cartridge at a set of indices, in file order
LinesAt(idx) ==
    [k \in 1..Cardinality(idx) |->
        cart[CHOOSE i \in idx : Cardinality({ j \in idx : j <= i }) = k]]

\* what C17 says of a section returned for a marker
ScannedAs(section, marker) ==
    /\ section = LinesAt(InsideLines(marker))
    /\ (\A i \in 1..Len(cart) : ~HasPrefix(cart[i], marker)) => section = <<>>
    /\ \A k \in 1..Len(section) : ~HasPrefix(section[k], MarkerPrefix)
    /\ \E idx \in SUBSET (1..Len(cart)) : section = LinesAt(idx)

\* C17: parseSection returns the lines that a two-state scanner captures: a
\* line with the marker as prefix opens the section, any other line starting
\* with "__" closes it, neither is captured, and every other line is captured
\* exactly when the section is open.  The result is empty when no line has
\* the marker as prefix, holds no line starting with "__", and is a
\* subsequence of the file's lines.
C17_TwoStateScanner ==
    pc # "parse" =>
        /\ ScannedAs(gfxData, GfxMarker)
        /\ gfxData # <<>> => ScannedAs(mapData, MapMarker)

C17_Witness ==
    /\ pc = "prepare"
    /\ cart = << GfxMarker \o <<120>>, <<48, 102>>, MapMarker, <<95, 48>> >>
    /\ gfxData = << <<48, 102>> >>
    /\ mapData = << <<95, 48>> >>

\* C18 as claimed: for every tile position at which renderMap has drawn an
\* atlas tile, the map JSON holds a cell at the same position whose sprite is
\* tileRow * 16 + tileCol of the block drawn, for any number of tilemap lines
\* and any line lengths.
C18_DrawnTilesHaveCells ==
    pc = "done" =>
        LET cells == MapCellSet IN
        \A ty \in DOMAIN mapImage.tiles : \A tx \in DOMAIN mapImage.tiles[ty] :
            LET tile == mapImage.tiles[ty][tx] IN
            tile.kind = "sprite" =>
                [X |-> tx, Y |-> ty, Sprite |-> tile.spriteY * 16 + tile.spriteX] \in cells

\* every character of the tilemap and of the active band rows is a hex digit
MapDigitsValid ==
    /\ \A y \in 1..Len(mapData) : \A x \in 1..Len(mapData[y]) : IsHexDigit(mapData[y][x])
    /\ \A y \in 1..Len(dualPurposeSection1.rows) :
          \A x \in 1..Len(dualPurposeSection1.rows[y]) : IsHexDigit(dualPurposeSection1.rows[y][x])
    /\ \A y \in 1..Len(dualPurposeSection2.rows) :
          \A x \in 1..Len(dualPurposeSection2.rows[y]) : IsHexDigit(dualPurposeSection2.rows[y][x])

\* the graphics section fills the atlas: 128 lines of 128 characters or more
AtlasFullSize ==
    /\ Len(gfxData) >= 128
    /\ \A y \in 1..128 : Len(gfxData[y]) >= 128

PaletteColours == { pico8Palette[i] : i \in 1..16 }

\* C19 as claimed: the rendered map is 1024 x mapHeight*8 pixels; for a pair
\* of the tilemap with hex digits (row, col) at map position (x, y) inside the
\* raster, the 8x8 block at (x*8, y*8) is the atlas block at (col*8, row*8)
\* when (row, col) # (0, 0) and the background Palette[0] otherwise; when all
\* digits are hex digits and the atlas is full-size, every pixel is one of the
\* 16 Palette colours.
C19_BaseTilesCopied ==
    pc = "saveSprites" =>
        /\ mapImage.w = 1024
        /\ mapImage.h = mapHeight * 8
        /\ \A y \in 0..(Min(Len(mapData), mapHeight) - 1) :
              \A x \in 0..(Min(Len(mapData[y + 1]) \div 2, 128) - 1) :
                 LET c1 == mapData[y + 1][2 * x + 1]
                     c2 == mapData[y + 1][2 * x + 2]
                 IN (IsHexDigit(c1) /\ IsHexDigit(c2)) =>
                      LET row == HexValue(c1)
                          col == HexValue(c2)
                      IN \A yy \in 0..7 : \A xx \in 0..7 :
                            MapAt(mapImage, spriteSheet, x * 8 + xx, y * 8 + yy) =
                               IF row # 0 \/ col # 0
                               THEN ImgAt(spriteSheet, col * 8 + xx, row * 8 + yy)
                               ELSE pico8Palette[1]
        /\ (MapDigitsValid /\ AtlasFullSize) =>
              \A py \in 0..(mapImage.h - 1) : \A px \in 0..(mapImage.w - 1) :
                 MapAt(mapImage, spriteSheet, px, py) \in PaletteColours

Rendered == pc \in {"saveSprites", "combine", "spriteJSON", "spritePNGs", "mapJSON", "done"}

\* the pair of a band row that is drawn at tile column tx: pair tx of an even
\* row, pair tx - 64 of an odd row
BandPairPresent(rows, y, tx) ==
    LET x == IF y % 2 = 0 THEN tx ELSE tx - 64 IN
    y < Len(rows) /\ x >= 0 /\ 2 * x + 1 < Len(rows[y + 1])

\* that pair is "00"
BandPairZero(rows, y, tx) ==
    LET x == IF y % 2 = 0 THEN tx ELSE tx - 64 IN
    rows[y + 1][2 * x + 1] = 48 /\ rows[y + 1][2 * x + 2] = 48

\* what the loop over the tilemap left at a tile
TileFromBase(tx, ty) == TileAfterBase(mapData, BackgroundTile, tx, ty)

\* C20: a (0,0) pair of a dual-purpose row writes a Palette[0] tile only on an
\* even row of band 3.  At a tile of the map rows 32..47 with band 3 active:
\* when the even row's pair is "00" and the odd row has no pair there or "00",
\* the tile is the Palette[0] tile, whatever the tilemap loop had drawn; when
\* only the odd row has a pair there and it is "00", the tile is as the
\* tilemap loop left it.  At a tile of the map rows 48..63 with band 4 active,
\* when every pair drawn there is "00", the tile is as the earlier loops left
\* it.
C20_BlankWritesOnlyOnEvenBand3 ==
    Rendered =>
        /\ ~dualPurposeSection1.isNil =>
              \A ty \in 32..(mapHeight - 1) : \A tx \in 0..127 :
                 LET rows == dualPurposeSection1.rows
                     e == 2 * (ty - 32)
                     o == e + 1
                 IN /\ (/\ BandPairPresent(rows, e, tx) /\ BandPairZero(rows, e, tx)
                        /\ BandPairPresent(rows, o, tx) => BandPairZero(rows, o, tx)
                        /\ ty < 48)
                       => /\ mapImage.tiles[ty][tx] = BlackTile
                          /\ \A yy \in 0..7 : \A xx \in 0..7 :
                                MapAt(mapImage, spriteSheet, tx * 8 + xx, ty * 8 + yy) = pico8Palette[1]
                    /\ (/\ ~BandPairPresent(rows, e, tx)
                        /\ BandPairPresent(rows, o, tx) /\ BandPairZero(rows, o, tx)
                        /\ ty < 48)
                       => mapImage.tiles[ty][tx] = TileFromBase(tx, ty)
        /\ ~dualPurposeSection2.isNil =>
              \A ty \in 48..(mapHeight - 1) : \A tx \in 0..127 :
                 LET rows == dualPurposeSection2.rows
                     e == 2 * (ty - 48)
                     o == e + 1
                 IN (/\ BandPairPresent(rows, e, tx) \/ BandPairPresent(rows, o, tx)
                     /\ BandPairPresent(rows, e, tx) => BandPairZero(rows, e, tx)
                     /\ BandPairPresent(rows, o, tx) => BandPairZero(rows, o, tx))
                    => /\ mapImage.tiles[ty][tx] = TileFromBase(tx, ty)
                       /\ mapImage.tiles[ty][tx] # BlackTile

\* a "00" pair of an even row of band 3 has blanked a tile that the tilemap
\* loop had drawn, one of an odd row of band 3 has left such a tile alone, and
\* one of band 4 has left the background alone
C20_Witness ==
    /\ Rendered
    /\ useSection3 /\ useSection4
    /\ ~dualPurposeSection1.isNil /\ ~dualPurposeSection2.isNil
    /\ \E ty \in 32..47 : \E tx \in 0..63 :
          /\ BandPairPresent(dualPurposeSection1.rows, 2 * (ty - 32), tx)
          /\ BandPairZero(dualPurposeSection1.rows, 2 * (ty - 32), tx)
          /\ TileFromBase(tx, ty).kind = "sprite"
          /\ mapImage.tiles[ty][tx] = BlackTile
    /\ \E ty \in 32..47 : \E tx \in 64..127 :
          /\ BandPairPresent(dualPurposeSection1.rows, 2 * (ty - 32) + 1, tx)
          /\ BandPairZero(dualPurposeSection1.rows, 2 * (ty - 32) + 1, tx)
          /\ ~BandPairPresent(dualPurposeSection1.rows, 2 * (ty - 32), tx)
          /\ mapImage.tiles[ty][tx].kind = "sprite"
          /\ mapImage.tiles[ty][tx] = TileFromBase(tx, ty)
    /\ \E ty \in 48..63 : \E tx \in 0..63 :
          /\ BandPairPresent(dualPurposeSection2.rows, 2 * (ty - 48), tx)
          /\ BandPairZero(dualPurposeSection2.rows, 2 * (ty - 48), tx)
          /\ mapImage.tiles[ty][tx] = BackgroundTile

\* the lines of the __gff__ section and whether the pair of sprite spriteIndex
\* is there: line spriteIndex / 128, characters 2k and 2k+1, k = spriteIndex % 128
FlagLines == parseSection(cart, GffMarker)
FlagPairPresent(spriteIndex) ==
    /\ spriteIndex \div flagsPerLine < Len(FlagLines)
    /\ 2 * (spriteIndex % flagsPerLine) + 1 < Len(FlagLines[(spriteIndex \div flagsPerLine) + 1])
FlagPairChar(spriteIndex, n) ==
    FlagLines[(spriteIndex \div flagsPerLine) + 1][2 * (spriteIndex % flagsPerLine) + n + 1]

\* C21: parseFlagSection returns exactly 256 entries; entry lineNum*128 + k
\* (lineNum 0 or 1, k in 0..127) is the value of the two hex digits 2k and
\* 2k+1 of flag line lineNum, high digit first, when the line has both
\* characters; every entry that the first two lines do not cover is 0, all
\* 256 are 0 when there is no flag section, and the entries depend on no line
\* after the second.
C21_FlagEntries ==
    pc = "prepare" =>
        /\ DOMAIN flagData = 0..(numSpriteIDs - 1)
        /\ \A spriteIndex \in 0..(numSpriteIDs - 1) :
              IF FlagPairPresent(spriteIndex)
              THEN (IsHexDigit(FlagPairChar(spriteIndex, 0))
                    /\ IsHexDigit(FlagPairChar(spriteIndex, 1)))
                   => flagData[spriteIndex] =
                         HexValue(FlagPairChar(spriteIndex, 0)) * 16
                         + HexValue(FlagPairChar(spriteIndex, 1))
              ELSE flagData[spriteIndex] = 0
        /\ Len(FlagLines) = 0 => \A spriteIndex \in 0..(numSpriteIDs - 1) : flagData[spriteIndex] = 0

\* a flag section of more than two lines has been decoded: sprite 0 has the
\* byte 0x12 of the first line, sprite 128 the byte 0x67 of the second
C21_Witness ==
    /\ pc = "prepare"
    /\ Len(FlagLines) > 2
    /\ FlagPairPresent(255)
    /\ flagData[0] = 18
    /\ flagData[128] = 103
    /\ flagData[255] > 0

\* the number that a list of eight booleans spells, bit b weighing 2^b
BitSum(individual) ==
    LET w(b) == IF individual[b] THEN Pow2(b) ELSE 0
    IN w(0) + w(1) + w(2) + w(3) + w(4) + w(5) + w(6) + w(7)

\* C22 as claimed: in every emitted sprite record, whatever the flag section
\* holds, flags.bitfield is an 8-bit value (0..255), flags.individual has
\* exactly 8 booleans, and bitfield is the sum over b in 0..7 of
\* individual[b] * 2^b.
C22_BitfieldIsSumOfBits ==
    JsonDone =>
        \A k \in 1..Len(jsonData.Sprites) :
            LET flags == jsonData.Sprites[k].Flags IN
            /\ flags.Bitfield \in 0..255
            /\ DOMAIN flags.Individual = 0..7
            /\ \A b \in 0..7 : flags.Individual[b] \in BOOLEAN
            /\ flags.Bitfield = BitSum(flags.Individual)

\* band k (sprite IDs 64k..64k+63) lies in a range that saveSprites exports
BandAvailable(k) ==
    \E a \in 1..Len(SaveSpriteRanges(useSection3, useSection4)) :
        LET r == SaveSpriteRanges(useSection3, useSection4)[a]
        IN r.start <= 64 * k /\ 64 * k + 63 <= r.end

\* slot k of the composite sheet, rows 32k..32k+31, is the atlas band k
SlotHoldsAtlas(sheet, k) ==
    \A y \in (32 * k)..(32 * k + 31) : \A x \in 0..127 :
        sheet.pix[y][x] = spriteSheet.pix[y][x]

SlotTransparent(sheet, k) ==
    \A y \in (32 * k)..(32 * k + 31) : \A x \in 0..127 : sheet.pix[y][x][4] = 0

\* C23 as claimed: for every option combination, slot k (k in 0..3) of the
\* composite sheet holds the atlas pixels of band k if the sprite IDs
\* 64k..64k+63 lie in an available range and is fully transparent otherwise,
\* so that a band turned into map data by an option never appears in the
\* sheet and every available sprite does.
C23_SheetShowsAvailableBands ==
    Combined =>
        \A k \in 0..3 :
            IF BandAvailable(k)
            THEN SlotHoldsAtlas(files["spritesheet.png"], k)
            ELSE SlotTransparent(files["spritesheet.png"], k)

\* a full-size cartridge: a tilemap of 32 lines of 256 hex digits and graphics
\* of 128 lines of 128 hex digits
FullSizeCart ==
    /\ Len(mapData) = 32
    /\ \A y \in 1..32 :
          Len(mapData[y]) = 256 /\ \A x \in 1..256 : IsHexDigit(mapData[y][x])
    /\ Len(gfxData) = 128
    /\ \A y \in 1..128 :
          Len(gfxData[y]) = 128 /\ \A x \in 1..128 : IsHexDigit(gfxData[y][x])

\* the positions of the cells of the map JSON
CellPositions == { <<mapSheet.Cells[k].X, mapSheet.Cells[k].Y>> : k \in 1..Len(mapSheet.Cells) }

\* the map rows that have cells: the base rows, those of band 3 when it is
\* active, those of band 4 when it is active
CoveredRows ==
    (0..31) \cup (IF useSection3 THEN 32..47 ELSE {}) \cup (IF useSection4 THEN 48..63 ELSE {})

\* C24 as claimed: for a full-size cartridge and every option combination the
\* cell list has exactly one cell for every position (x, y) with
\* 0 <= x < Width and 0 <= y < Height and no cell outside that rectangle, so
\* that the number of cells is Width * Height.
C24_CellsFillRectangle ==
    (pc = "done" /\ FullSizeCart) =>
        /\ CellPositions = (0..(mapSheet.Width - 1)) \X (0..(mapSheet.Height - 1))
        /\ Len(mapSheet.Cells) = Cardinality(CellPositions)
        /\ Len(mapSheet.Cells) = mapSheet.Width * mapSheet.Height

\* C24: for a full-size cartridge the cell list has exactly one cell for
\* every position of the base rows 0..31 and of the rows of each active band
\* (32..47 for band 3, 48..63 for band 4) and no other cell; it fills the
\* Width x Height rectangle for every option combination except --4 alone,
\* where Height is 64 and the rows 32..47 have no cell (6144 cells).
C24_CellsFillCoveredRows ==
    (pc = "done" /\ FullSizeCart) =>
        /\ CellPositions = (0..(mapSheet.Width - 1)) \X CoveredRows
        /\ Len(mapSheet.Cells) = Cardinality(CellPositions)
        /\ Len(mapSheet.Cells) = mapSheet.Width * Cardinality(CoveredRows)
        /\ CoveredRows \subseteq 0..(mapSheet.Height - 1)
        /\ ~(useSection4 /\ ~useSection3) => CoveredRows = 0..(mapSheet.Height - 1)
        /\ (useSection4 /\ ~useSection3) =>
              /\ mapSheet.Height = 64
              /\ Len(mapSheet.Cells) = 6144
              /\ \A k \in 1..Len(mapSheet.Cells) : mapSheet.Cells[k].Y \notin 32..47

\* a full-size cartridge has gone through with --4 alone: 64 rows, cells in
\* the corners of the base rows and of band 4, none in row 32
C24_Witness ==
    /\ pc = "done"
    /\ FullSizeCart
    /\ useSection4 /\ ~useSection3
    /\ mapSheet.Height = 64
    /\ Len(mapSheet.Cells) = 6144
    /\ <<0, 0>> \in CellPositions
    /\ <<127, 63>> \in CellPositions
    /\ <<0, 32>> \notin CellPositions

\* the section files there are
SectionFiles == { i \in 0..3 : SectionPath(i) \in DOMAIN files }

\* section file i holds the atlas rows 32i..32i+31, as saveSprites writes it
SectionFileFromAtlas(i) ==
    files[SectionPath(i)] = SubImage(spriteSheet, 0, i * sectionHeight, sectionWidth, sectionHeight)

\* C25: main and saveSprites compute the same number of sections for all four
\* option combinations; no section file exists before saveSprites has run;
\* when the combine step starts, and from then on, every section file
\* sprites/section_i.png with i below main's number of sections is there as
\* saveSprites wrote it in this run, so that the combiner reads only files
\* written by saveSprites and finds every file it asks for.
C25_SectionsWrittenBeforeCombine ==
    /\ \A use3 \in BOOLEAN : \A use4 \in BOOLEAN :
          MainNumSections(use3, use4) = SaveSpritesNumSections(use3, use4)
    /\ pc \in {"parse", "prepare", "renderMap", "saveSprites"} => SectionFiles = {}
    /\ (pc = "combine" \/ Combined) =>
          /\ SectionFiles = 0..(MainNumSections(useSection3, useSection4) - 1)
          /\ \A i \in SectionFiles : SectionFileFromAtlas(i)
    /\ Combined =>
          /\ numSections = MainNumSections(useSection3, useSection4)
          /\ ~combineSectionsIntoSpriteSheet(files, numSections).err
          /\ "spritesheet.png" \in DOMAIN files

\* with --3 alone saveSprites has written three section files and the
\* combiner is about to read them
C25_Witness ==
    /\ pc = "combine"
    /\ useSection3 /\ ~useSection4
    /\ SectionFiles = {0, 1, 2}
    /\ SectionFileFromAtlas(2)
    /\ "spritesheet.png" \notin DOMAIN files

====
